---- MODULE Spec2Model ----
(***************************************************************************)
(* Model of src/app.py: an ontology-driven data entry service on top of    *)
(* an RDF triple store.                                                    *)
(*                                                                         *)
(* Strings are pairs <<ns, ln>>: ns names a namespace prefix (a URL that   *)
(* ends in '/' or '#', or "" for plain text) and ln is the rest, which     *)
(* holds no '/' and no '#'.  RDF terms are tagged tuples:                  *)
(*   <<"iri", ns, ln>>        URIRef                                       *)
(*   <<"lit", ns, ln, lang>>  Literal with lexical form <<ns, ln>>         *)
(*   <<"bnode", id>>          BNode                                        *)
(* A graph is a set of triples <<s, p, o>>.                                *)
(*                                                                         *)
(* The persistence engine (rdflib-sqlalchemy) is not part of the source:   *)
(* the model keeps whether the shared handle is open or closed, and takes  *)
(* query and insert on the triple set as the store interface defines them. *)
(***************************************************************************)
EXTENDS Integers, Sequences, FiniteSets, TLC

VARIABLES
    triples,     \* content of the persistent store (graph urn:example:knowledge_graph)
    doc,         \* triples of the document served at ONTOLOGY_URL
    store,       \* global `store`: "None", "unopened", "open", "closed"
    g,           \* global `g`: "None" or "graph" (the same object as store)
    pc,          \* position of the request being served: "idle", "body", "teardown"
    handle,      \* what get_graph() returned to the request
    initResult,  \* branch get_graph took last (the line it printed)
    resp,        \* what the handler answered
    submitted,   \* successful submissions so far: [subject, form]
    threads      \* requests served by concurrent threads: [pc, handle] of each

vars == <<triples, doc, store, g, pc, handle, initResult, resp, submitted, threads>>

-----------------------------------------------------------------------------
(* Bounds *)

MaxMint == 2          \* submissions that mint a subject
MaxGraphSize == 4     \* triples of an initial graph handed to the queries

-----------------------------------------------------------------------------
(* Strings and terms *)

EmptyStr == <<"", "">>
Text(ln) == <<"", ln>>

URIRef(s) == <<"iri", s[1], s[2]>>
Literal(s) == <<"lit", s[1], s[2], "">>
LangLiteral(s, lang) == <<"lit", s[1], s[2], lang>>
BNode(id) == <<"bnode", id>>
Unbound == <<"unbound">>

IsLiteral(t) == t[1] = "lit"
IsBlank(t) == t[1] = "bnode"
IsURIRef(t) == t[1] = "iri"

\* str(term)
str(t) == IF IsBlank(t) THEN Text(t[2]) ELSE <<t[2], t[3]>>

\* namespaces: rdf, rdfs, xsd, owl all begin with http://www.w3.org/
RDF_type == <<"iri", "rdf", "type">>
RDF_Property == <<"iri", "rdf", "Property">>
RDFS_label == <<"iri", "rdfs", "label">>
RDFS_subClassOf == <<"iri", "rdfs", "subClassOf">>
RDFS_domain == <<"iri", "rdfs", "domain">>
RDFS_range == <<"iri", "rdfs", "range">>
OWL_Class == <<"iri", "owl", "Class">>
OWL_ObjectProperty == <<"iri", "owl", "ObjectProperty">>
OWL_DatatypeProperty == <<"iri", "owl", "DatatypeProperty">>
XSD_string == <<"iri", "xsd", "string">>

\* EX = https://purl.bioontology.org/ontology/ONTOFLAP/
EX(ln) == <<"iri", "ex", ln>>
\* BASE_URI = https://purl.bioontology.org/ontology/ONTOFLAP/instances/
BASE_URI(ln) == <<"iri", "base", ln>>
ontology_marker_class == EX("OFLID10002")

\* regex(str(?x), "^http://www.w3.org/")
IsW3(s) == s[1] \in {"rdf", "rdfs", "xsd", "owl"}
\* range_uri.startswith(str(XSD))
StartsWithXSD(s) == s[1] = "xsd"

\* str(uri).split('#')[-1].split('/')[-1]   and
\* REPLACE(REPLACE(str(?x), "^.*/", ""), "^.*#", "")
LocalName(s) == Text(s[2])

\* lang(?l) = "" || langMatches(lang(?l), "en")
EnglishTags == {"en", "en-GB", "en-US"}
LangOk(l) == IsLiteral(l) /\ (l[4] = "" \/ l[4] \in EnglishTags)

\* Python truth value of a query result cell or term
Truthy(t) == t # Unbound /\ str(t) # EmptyStr

-----------------------------------------------------------------------------
(* Code point order of the strings in use *)

NsOrder == <<"", "rdf", "rdfs", "xsd", "owl", "ex", "base">>
LnOrder == <<"", "A", "Ada", "Apple", "B", "Class", "DatatypeProperty",
             "OFLID10002", "ObjectProperty", "P", "Property", "R", "Zed",
             "b1", "domain", "label", "range", "string", "subClassOf",
             "type", "u1", "u2", "u3", "u4">>

NsRank(ns) == CHOOSE i \in 1..Len(NsOrder) : NsOrder[i] = ns
LnRank(ln) == CHOOSE i \in 1..Len(LnOrder) : LnOrder[i] = ln

\* rdflib's ORDER BY key: unbound < blank node < IRI < literal, then the text
TermKey(t) ==
    IF t = Unbound THEN <<0, 0, 0>>
    ELSE IF IsBlank(t) THEN <<1, 0, LnRank(t[2])>>
    ELSE IF IsURIRef(t) THEN <<2, NsRank(t[2]), LnRank(t[3])>>
    ELSE <<3, NsRank(t[2]), LnRank(t[3])>>

RECURSIVE KeyLess(_, _)
KeyLess(a, b) ==
    IF a = <<>> \/ b = <<>> THEN FALSE
    ELSE IF Head(a) # Head(b) THEN Head(a) < Head(b)
    ELSE KeyLess(Tail(a), Tail(b))

\* every sequence that lists the rows of K, a set of <<key, row>> pairs, in
\* non-descending key order (rows with equal keys come in the order the
\* store happened to yield them)
RECURSIVE OrderBy(_)
OrderBy(K) ==
    IF K = {} THEN {<<>>}
    ELSE UNION {{<<m[2]>> \o t : t \in OrderBy(K \ {m})} :
                m \in {x \in K : \A y \in K : ~KeyLess(y[1], x[1])}}

-----------------------------------------------------------------------------
(* Store interface *)

Objects(G, s, p) == {t[3] : t \in {x \in G : x[1] = s /\ x[2] = p}}
Subjects(G, p, o) == {t[1] : t \in {x \in G : x[2] = p /\ x[3] = o}}

\* ?x rdfs:subClassOf* ?y evaluated from a bound end, with rdflib's seen set
RECURSIVE PathStar(_, _, _, _)
PathStar(G, frontier, seen, fwd) ==
    IF frontier = {} THEN seen
    ELSE LET next == UNION {IF fwd THEN Objects(G, n, RDFS_subClassOf)
                                   ELSE Subjects(G, RDFS_subClassOf, n) :
                            n \in frontier}
         IN PathStar(G, next \ (seen \cup frontier), seen \cup frontier, fwd)

\* the superclass path without its transitive step
SuperClosure_direct(G, c) == {c} \cup Objects(G, c, RDFS_subClassOf)
\* <c> rdfs:subClassOf* ?domainClass
SuperClosure(G, c) == PathStar(G, {c}, {}, TRUE)
\* the direct type match of line 265 in place of the subclass path
SubClosure_direct(G, c) == {c}
\* ?type rdfs:subClassOf* <c>
SubClosure(G, c) == PathStar(G, {c}, {}, FALSE)

\* { ?x rdfs:label ?l . FILTER(lang(?l) = "" || langMatches(lang(?l), "en")) }
QualifyingLabels(G, x) == {l \in Objects(G, x, RDFS_label) : LangOk(l)}

\* every sequence that takes its i-th element from the set ss[i]
RECURSIVE Choices(_)
Choices(ss) ==
    IF ss = <<>> THEN {<<>>}
    ELSE {<<h>> \o t : h \in Head(ss), t \in Choices(Tail(ss))}

NoneStr == <<"None">>

-----------------------------------------------------------------------------
(* Helper functions for ontology/graph queries.  Each returns the set of    *)
(* results the call can produce: the order of rows with equal sort keys and *)
(* the label graph.value() picks among several are the store's choice.      *)

get_label(subject_uri, graph) ==
    IF IsLiteral(subject_uri) THEN {str(subject_uri)}
    ELSE LET labels == Objects(graph, subject_uri, RDFS_label)
             name == LocalName(str(subject_uri))
             fallback == IF name # EmptyStr THEN name ELSE str(subject_uri)
         IN IF labels = {} THEN {fallback}
            ELSE {IF Truthy(l) THEN str(l) ELSE fallback : l \in labels}

\* the three UNION branches and the two filters of the class query
ClassCandidates(graph) ==
    LET declared == {t[1] : t \in {x \in graph : x[2] = RDF_type /\ x[3] = OWL_Class}}
        subclass == {t[1] : t \in {x \in graph : x[2] = RDFS_subClassOf}}
        domain == {t[3] : t \in {x \in graph : x[2] = RDFS_domain}}
    IN {c \in declared \cup subclass \cup domain : ~IsBlank(c) /\ ~IsW3(str(c))}

\* SELECT DISTINCT ?class_uri ?label
ClassRows(graph) ==
    UNION {LET ql == QualifyingLabels(graph, c)
           IN IF ql = {} THEN {<<c, Unbound>>} ELSE {<<c, l>> : l \in ql} :
           c \in ClassCandidates(graph)}

get_ontology_classes(graph) ==
    UNION {Choices([i \in 1..Len(rows) |->
                      {[uri |-> str(rows[i][1]), label |-> lb] :
                         lb \in IF Truthy(rows[i][2]) THEN {str(rows[i][2])}
                                ELSE get_label(rows[i][1], graph)}]) :
           rows \in OrderBy({<<TermKey(r[2]) \o TermKey(r[1]), r>> : r \in ClassRows(graph)})}

PropertyKinds == {OWL_ObjectProperty, OWL_DatatypeProperty, RDF_Property}

\* IF(?propType = owl:ObjectProperty, "object", IF(?propType = owl:DatatypeProperty, "datatype", "unknown"))
PropTypeName(propType) ==
    IF propType = OWL_ObjectProperty THEN "object"
    ELSE IF propType = OWL_DatatypeProperty THEN "datatype" ELSE "unknown"

\* the (?prop, ?propType) solutions of the property query before the OPTIONALs
PropSolutions(graph, class_uri_str) ==
    LET closure == SuperClosure(graph, URIRef(class_uri_str))
        kinded == {t \in graph : t[2] = RDF_type /\ t[3] \in PropertyKinds}
        matching == {t[1] : t \in {x \in graph : x[2] = RDFS_domain /\ x[3] \in closure}}
        nodomain == {t[1] : t \in {x \in kinded : Objects(graph, x[1], RDFS_domain) = {}}}
    IN {<<t[1], t[3]>> : t \in {x \in kinded : /\ x[1] \in matching \cup nodomain
                                               /\ ~IsW3(str(x[1]))}}

\* SELECT DISTINCT ?prop ?label ?range ?type
PropRows(graph, class_uri_str) ==
    UNION {LET prop == s[1]
               ql == QualifyingLabels(graph, prop)
               rs == Objects(graph, prop, RDFS_range)
           IN {<<prop, l, r, PropTypeName(s[2])>> :
                 l \in IF ql = {} THEN {Literal(LocalName(str(prop)))} ELSE ql,
                 r \in IF rs = {} THEN {Literal(EmptyStr)} ELSE rs} :
           s \in PropSolutions(graph, class_uri_str)}

\* lines 201-226: one result item for a row
PropItem(graph, row) ==
    LET prop_uri == str(row[1])
        label == str(row[2])
        range_uri == IF Truthy(row[3]) THEN str(row[3]) ELSE NoneStr
        prop_type == row[4]
        object_kind ==
            IF prop_type = "object" THEN "instance"
            ELSE IF range_uri # NoneStr
                    /\ (\/ <<URIRef(range_uri), RDF_type, OWL_Class>> \in graph
                        \/ Objects(graph, URIRef(range_uri), RDFS_subClassOf) # {})
                 THEN "instance"
            ELSE "literal"
    IN [uri |-> prop_uri, label |-> label, range |-> range_uri, object_kind |-> object_kind]

\* lines 228-233: keep the first item of every uri
RECURSIVE Deduplicate(_, _)
Deduplicate(results, seen_uris) ==
    IF results = <<>> THEN <<>>
    ELSE IF Head(results).uri \in seen_uris
         THEN Deduplicate(Tail(results), seen_uris)
         ELSE <<Head(results)>> \o Deduplicate(Tail(results), seen_uris \cup {Head(results).uri})

get_properties_for_class(graph, class_uri_str) ==
    IF class_uri_str = EmptyStr THEN {<<>>}
    ELSE {Deduplicate([i \in 1..Len(rows) |-> PropItem(graph, rows[i])], {}) :
          rows \in OrderBy({<<TermKey(r[2]) \o TermKey(r[1]), r>> :
                            r \in PropRows(graph, class_uri_str)})}

\* SELECT DISTINCT ?instance ?label
InstanceRows(graph, class_uri_str) ==
    LET typed == {t \in graph : t[2] = RDF_type}
        inscope == IF class_uri_str # EmptyStr
                   THEN {t \in typed : t[3] \in SubClosure(graph, URIRef(class_uri_str))}
                   ELSE typed
        instances == {i \in {t[1] : t \in inscope} :
                        /\ OWL_Class \notin Objects(graph, i, RDF_type)
                        /\ RDF_Property \notin Objects(graph, i, RDF_type)
                        /\ ~IsBlank(i)}
    IN UNION {LET ql == QualifyingLabels(graph, i)
              IN {<<i, l>> : l \in IF ql = {} THEN {Literal(LocalName(str(i)))} ELSE ql} :
              i \in instances}

get_existing_instances(graph, class_uri_str) ==
    UNION {LET kept == SelectSeq(rows, LAMBDA r : str(r[1]) # str(EX("")))
           IN Choices([i \in 1..Len(kept) |->
                         {[uri |-> str(kept[i][1]), label |-> lb] :
                            lb \in IF Truthy(kept[i][2]) THEN {str(kept[i][2])}
                                   ELSE get_label(kept[i][1], graph)}]) :
           rows \in OrderBy({<<TermKey(r[2]) \o TermKey(r[1]), r>> :
                             r \in InstanceRows(graph, class_uri_str)})}

-----------------------------------------------------------------------------
(* Inputs *)

\* the documents ONTOLOGY_URL may serve
DocUniverse == {<<ontology_marker_class, RDF_type, OWL_Class>>,
                <<EX("B"), RDFS_subClassOf, EX("A")>>}
OntoDocs == SUBSET DocUniverse

\* request.form of POST /add_triple
Forms ==
    {f \in [subjectName : {EmptyStr, Text("Ada")},
            subjectClass : {EmptyStr, str(EX("B"))},
            property : {EmptyStr, str(EX("P")), str(RDF_type), str(RDFS_label)},
            objectKind : {"", "literal", "instance", "other"},
            objectValueLiteral : {EmptyStr, Text("Ada")},
            objectValueInstance : {EmptyStr, str(EX("B")), str(OWL_Class)}] :
       f.objectValueLiteral = EmptyStr \/ f.objectValueInstance = EmptyStr}

\* request.form of a POST /add_triple written by hand: any IRI may stand in
\* the property and object fields
SchemaForms ==
    {f \in [subjectName : {EmptyStr, Text("Ada")},
            subjectClass : {str(EX("B"))},
            property : {str(EX("P")), str(RDF_type), str(RDFS_subClassOf),
                        str(RDFS_domain)},
            objectKind : {"literal", "instance"},
            objectValueLiteral : {EmptyStr, Text("Ada")},
            objectValueInstance : {EmptyStr, str(EX("A")), str(OWL_Class),
                                   str(OWL_ObjectProperty)}] :
       f.objectValueLiteral = EmptyStr \/ f.objectValueInstance = EmptyStr}

\* the ontologies the store may hold once the load has succeeded
SchemaUniverse == {<<EX("B"), RDFS_subClassOf, EX("A")>>,
                   <<EX("P"), RDF_type, OWL_ObjectProperty>>,
                   <<EX("P"), RDFS_domain, EX("A")>>}
SchemaDocs == {D \cup {<<ontology_marker_class, RDF_type, OWL_Class>>} :
               D \in SUBSET SchemaUniverse}

\* request.args.get('class_uri')
ClassArgs == {EmptyStr, str(EX("A")), str(EX("B")), str(EX("R"))}

\* graphs the store may hold when the queries run
TripleUniverse ==
    {<<EX("A"), RDF_type, OWL_Class>>,
     <<EX("B"), RDFS_subClassOf, EX("A")>>,
     <<EX("A"), RDFS_subClassOf, EX("B")>>,
     <<EX("R"), RDFS_subClassOf, EX("B")>>,
     <<EX("P"), RDF_type, OWL_ObjectProperty>>,
     <<EX("P"), RDF_type, OWL_DatatypeProperty>>,
     <<EX("P"), RDF_type, RDF_Property>>,
     <<EX("P"), RDFS_domain, EX("A")>>,
     <<EX("P"), RDFS_range, EX("A")>>,
     <<EX("P"), RDFS_range, XSD_string>>,
     <<EX("A"), RDFS_label, Literal(Text("Apple"))>>,
     <<EX("A"), RDFS_label, LangLiteral(Text("Zed"), "en")>>,
     <<BASE_URI("u1"), RDF_type, EX("B")>>,
     <<BNode("b1"), RDFS_subClassOf, EX("A")>>}
Graphs == {G \in SUBSET TripleUniverse : Cardinality(G) <= MaxGraphSize}

NoResp == [op |-> "none", status |-> "none", arg |-> EmptyStr, rows |-> <<>>,
           subject |-> NoneStr]

-----------------------------------------------------------------------------
(* get_graph, lines 48-108: one action per branch *)

\* line 51: g is not None
GetGraphCached ==
    /\ pc = "idle" /\ g # "None"
    /\ handle' = g /\ initResult' = "cached" /\ pc' = "body"
    /\ UNCHANGED <<triples, doc, store, g, resp, submitted, threads>>

\* lines 57-58 raise: OperationalError, or any other exception of open()
GetGraphConnFail ==
    /\ pc = "idle" /\ g = "None"
    /\ store' = "unopened" /\ g' = "None"
    /\ handle' = "None" /\ initResult' = "connfail" /\ pc' = "body"
    /\ UNCHANGED <<triples, doc, resp, submitted, threads>>

\* lines 71, 96-97: the marker triple is in the store
GetGraphMarker ==
    /\ pc = "idle" /\ g = "None"
    /\ <<ontology_marker_class, RDF_type, OWL_Class>> \in triples
    /\ store' = "open" /\ g' = "graph"
    /\ handle' = "graph" /\ initResult' = "marker" /\ pc' = "body"
    /\ UNCHANGED <<triples, doc, resp, submitted, threads>>

\* lines 71-81: the marker is missing and g.parse() returns
GetGraphParsed ==
    /\ pc = "idle" /\ g = "None"
    /\ <<ontology_marker_class, RDF_type, OWL_Class>> \notin triples
    /\ triples' = triples \cup doc
    /\ store' = "open" /\ g' = "graph"
    /\ handle' = "graph" /\ initResult' = "parsed" /\ pc' = "body"
    /\ UNCHANGED <<doc, resp, submitted, threads>>

\* the failure branch without the reset of lines 85 and 95
GetGraphLoadFail_keepsHandle ==
    /\ pc = "idle" /\ g = "None"
    /\ <<ontology_marker_class, RDF_type, OWL_Class>> \notin triples
    /\ \E part \in SUBSET doc : triples' = triples \cup part
    /\ store' = "open" /\ g' = "graph"
    /\ handle' = "graph" /\ initResult' = "loadfail" /\ pc' = "body"
    /\ UNCHANGED <<doc, resp, submitted, threads>>

\* lines 83-95: the fetch fails (nothing was read) or the parser raises after
\* it has put part of the document into the store
GetGraphLoadFail ==
    /\ pc = "idle" /\ g = "None"
    /\ <<ontology_marker_class, RDF_type, OWL_Class>> \notin triples
    /\ \E part \in SUBSET doc : triples' = triples \cup part
    /\ store' = "open" /\ g' = "None"
    /\ handle' = "None" /\ initResult' = "loadfail" /\ pc' = "body"
    /\ UNCHANGED <<doc, resp, submitted, threads>>

-----------------------------------------------------------------------------
(* Routes: what each handler does once get_graph() has returned *)

\* lines 302-304, 322-323, 336-337, 350-352, 447-448: graph is None
Unavailable ==
    /\ pc = "body" /\ handle = "None"
    /\ resp' = [NoResp EXCEPT !.status = "unavailable"]
    /\ pc' = "teardown"
    /\ UNCHANGED <<triples, doc, store, g, handle, initResult, submitted, threads>>

index ==
    /\ pc = "body" /\ handle # "None"
    /\ \E classes \in get_ontology_classes(triples) :
         resp' = [NoResp EXCEPT !.op = "index", !.status = "ok", !.rows = classes]
    /\ pc' = "teardown"
    /\ UNCHANGED <<triples, doc, store, g, handle, initResult, submitted, threads>>

api_get_properties ==
    /\ pc = "body" /\ handle # "None"
    /\ \E class_uri \in ClassArgs :
         IF class_uri = EmptyStr
         THEN resp' = [NoResp EXCEPT !.op = "properties", !.status = "bad_request"]
         ELSE \E properties \in get_properties_for_class(triples, class_uri) :
                resp' = [NoResp EXCEPT !.op = "properties", !.status = "ok",
                                       !.arg = class_uri, !.rows = properties]
    /\ pc' = "teardown"
    /\ UNCHANGED <<triples, doc, store, g, handle, initResult, submitted, threads>>

api_get_instances ==
    /\ pc = "body" /\ handle # "None"
    /\ \E class_uri \in ClassArgs :
       \E instances \in get_existing_instances(triples, class_uri) :
         resp' = [NoResp EXCEPT !.op = "instances", !.status = "ok",
                                !.arg = class_uri, !.rows = instances]
    /\ pc' = "teardown"
    /\ UNCHANGED <<triples, doc, store, g, handle, initResult, submitted, threads>>

\* lines 444-475: the dump of the graph; kept here as its triple count
view_graph ==
    /\ pc = "body" /\ handle # "None"
    /\ resp' = [NoResp EXCEPT !.op = "view", !.status = "ok",
                              !.rows = <<Cardinality(triples)>>]
    /\ pc' = "teardown"
    /\ UNCHANGED <<triples, doc, store, g, handle, initResult, submitted, threads>>

\* uuid.uuid4(): a token no term of the store carries
UuidTokens == <<"u1", "u2", "u3", "u4">>
TokensInUse(G) ==
    {t[1][3] : t \in {x \in G : x[1] = BASE_URI(x[1][3])}}
      \cup {t[3][3] : t \in {x \in G : x[3] = BASE_URI(x[3][3])}}
HasFreshUuid(G) == \E i \in 1..Len(UuidTokens) : UuidTokens[i] \notin TokensInUse(G)
uuid4(G) ==
    UuidTokens[CHOOSE i \in 1..Len(UuidTokens) :
                 /\ UuidTokens[i] \notin TokensInUse(G)
                 /\ \A j \in 1..(i - 1) : UuidTokens[j] \in TokensInUse(G)]

\* the name-derived identifier of lines 289-291 without its unique part
mint_instance_uri_named(name, unique_id) == BASE_URI(name[2])
mint_instance_uri(name, unique_id) == BASE_URI(unique_id)

\* validation without the check of line 367
PassesValidation_noLiteralCheck(f) ==
    /\ f.subjectName # EmptyStr /\ f.subjectClass # EmptyStr
    /\ f.property # EmptyStr /\ f.objectKind # ""
    /\ ~(f.objectKind = "instance" /\ f.objectValueInstance = EmptyStr)
    /\ f.objectKind \in {"literal", "instance"}

\* lines 363-373 and 393-395
PassesValidation(f) ==
    /\ f.subjectName # EmptyStr /\ f.subjectClass # EmptyStr
    /\ f.property # EmptyStr /\ f.objectKind # ""
    /\ ~(f.objectKind = "literal" /\ f.objectValueLiteral = EmptyStr)
    /\ ~(f.objectKind = "instance" /\ f.objectValueInstance = EmptyStr)
    /\ f.objectKind \in {"literal", "instance"}

\* the three inserts plus a declaration of the subject's class
AddedTriples_declaresClass(f, subject_uri) ==
    LET subject_class == URIRef(f.subjectClass)
        prop == URIRef(f.property)
        obj == IF f.objectKind = "literal" THEN Literal(f.objectValueLiteral)
               ELSE URIRef(f.objectValueInstance)
    IN {<<subject_uri, RDF_type, subject_class>>,
        <<subject_class, RDF_type, OWL_Class>>,
        <<subject_uri, RDFS_label, Literal(f.subjectName)>>,
        <<subject_uri, prop, obj>>}

\* lines 378-418: the three graph.add calls
AddedTriples(f, subject_uri) ==
    LET subject_class == URIRef(f.subjectClass)
        prop == URIRef(f.property)
        obj == IF f.objectKind = "literal" THEN Literal(f.objectValueLiteral)
               ELSE URIRef(f.objectValueInstance)
    IN {<<subject_uri, RDF_type, subject_class>>,
        <<subject_uri, RDFS_label, Literal(f.subjectName)>>,
        <<subject_uri, prop, obj>>}

\* lines 346-441 for a form drawn from F
Submit(F) ==
    /\ pc = "body" /\ handle # "None"
    /\ \E f \in F :
         IF ~PassesValidation(f)
         THEN /\ resp' = [NoResp EXCEPT !.op = "add", !.status = "rejected", !.arg = f]
              /\ UNCHANGED <<triples, submitted>>
         ELSE /\ Cardinality(submitted) < MaxMint /\ HasFreshUuid(triples)
              /\ LET subject_uri == mint_instance_uri(f.subjectName, uuid4(triples))
                 IN /\ triples' = triples \cup AddedTriples(f, subject_uri)
                    /\ submitted' = submitted \cup {[subject |-> subject_uri, form |-> f]}
                    /\ resp' = [NoResp EXCEPT !.op = "add", !.status = "ok", !.arg = f,
                                              !.subject = str(subject_uri)]
    /\ pc' = "teardown"
    /\ UNCHANGED <<doc, store, g, handle, initResult, threads>>

add_triple == Submit(Forms)

\* submissions that name terms of the RDFS and OWL vocabularies
add_triple_any == Submit(SchemaForms)

\* lines 478-487, run when the request ends; the response has gone out
shutdown_session ==
    /\ pc = "teardown"
    /\ store' = IF store = "None" THEN "None" ELSE "closed"
    /\ pc' = "idle" /\ handle' = "None" /\ resp' = NoResp
    /\ UNCHANGED <<triples, doc, g, initResult, submitted, threads>>

-----------------------------------------------------------------------------
(* The service: requests served one after another, from process start *)

Init ==
    /\ doc \in OntoDocs
    /\ triples \in {{}, doc}
    /\ store = "None" /\ g = "None"
    /\ pc = "idle" /\ handle = "None" /\ initResult = "none"
    /\ resp = NoResp /\ submitted = {}
    /\ threads = <<>>

Next ==
    \/ GetGraphCached \/ GetGraphConnFail \/ GetGraphMarker
    \/ GetGraphParsed \/ GetGraphLoadFail
    \/ Unavailable \/ index \/ api_get_properties \/ api_get_instances
    \/ view_graph \/ add_triple \/ shutdown_session

Spec == Init /\ [][Next]_vars

(* The discovery queries over any graph of the store, once get_graph() has *)
(* set up the handle                                                       *)

InitQ ==
    /\ doc = {}
    /\ triples \in Graphs
    /\ store = "open" /\ g = "graph"
    /\ pc = "idle" /\ handle = "None" /\ initResult = "none"
    /\ resp = NoResp /\ submitted = {}
    /\ threads = <<>>

NextQ ==
    \/ GetGraphCached
    \/ index \/ api_get_properties \/ api_get_instances \/ view_graph
    \/ shutdown_session

SpecQ == InitQ /\ [][NextQ]_vars

(* Submissions against a loaded ontology: the state get_graph() leaves when *)
(* its parse has returned                                                   *)

InitS ==
    /\ doc \in SchemaDocs
    /\ triples = doc
    /\ store = "open" /\ g = "graph"
    /\ pc = "body" /\ handle = "graph" /\ initResult = "parsed"
    /\ resp = NoResp /\ submitted = {}
    /\ threads = <<>>

NextS ==
    \/ GetGraphCached
    \/ index \/ api_get_properties \/ add_triple_any
    \/ shutdown_session

SpecS == InitS /\ [][NextS]_vars

(* Requests served by concurrent threads of one process: get_graph() line by *)
(* line, each thread reading and writing the globals store and g            *)

Threads == {"t1", "t2"}

Marker == <<ontology_marker_class, RDF_type, OWL_Class>>

Others == <<pc, handle, initResult, resp, submitted>>

At(t, p) == threads[t].pc = p
Goto(t, p) == threads' = [threads EXCEPT ![t].pc = p]

\* line 51: the test of g; lines 52-107 are skipped when g is set
get_graph_test(t) ==
    /\ At(t, "idle")
    /\ Goto(t, IF g = "None" THEN "open" ELSE "return")
    /\ UNCHANGED <<triples, doc, store, g, Others>>

\* lines 57-59: store = Graph(...), store.open(...), g = store
get_graph_open(t) ==
    /\ At(t, "open")
    /\ store' = "open" /\ g' = "graph"
    /\ Goto(t, "lookup")
    /\ UNCHANGED <<triples, doc, Others>>

\* lines 57-58 raise; the handlers of lines 99-107 assign g = None
get_graph_open_fails(t) ==
    /\ At(t, "open")
    /\ store' = "unopened" /\ g' = "None"
    /\ Goto(t, "return")
    /\ UNCHANGED <<triples, doc, Others>>

\* line 71: is the marker triple in the store
get_graph_lookup(t) ==
    /\ At(t, "lookup")
    /\ Goto(t, IF Marker \in triples THEN "return" ELSE "parse")
    /\ UNCHANGED <<triples, doc, store, g, Others>>

\* lines 77-81: g.parse() returns
get_graph_parse(t) ==
    /\ At(t, "parse")
    /\ triples' = triples \cup doc
    /\ Goto(t, "return")
    /\ UNCHANGED <<doc, store, g, Others>>

\* lines 83-95: the fetch or the parser raises, g = None
get_graph_parse_fails(t) ==
    /\ At(t, "parse")
    /\ \E part \in SUBSET doc : triples' = triples \cup part
    /\ g' = "None"
    /\ Goto(t, "return")
    /\ UNCHANGED <<doc, store, Others>>

\* line 108: return g, the global as it is now
get_graph_return(t) ==
    /\ At(t, "return")
    /\ threads' = [threads EXCEPT ![t] = [pc |-> "body", handle |-> g]]
    /\ UNCHANGED <<triples, doc, store, g, Others>>

\* a handler that got a graph queries it and responds
serve(t) ==
    /\ At(t, "body") /\ threads[t].handle # "None"
    /\ Goto(t, "teardown")
    /\ UNCHANGED <<triples, doc, store, g, Others>>

\* lines 302-304, 322-323, 336-337, 350-352, 447-448: graph is None
refuse(t) ==
    /\ At(t, "body") /\ threads[t].handle = "None"
    /\ Goto(t, "teardown")
    /\ UNCHANGED <<triples, doc, store, g, Others>>

\* lines 478-487 at the end of the thread's request
teardown(t) ==
    /\ At(t, "teardown")
    /\ store' = IF store = "None" THEN "None" ELSE "closed"
    /\ threads' = [threads EXCEPT ![t] = [pc |-> "idle", handle |-> "None"]]
    /\ UNCHANGED <<triples, doc, g, Others>>

InitC ==
    /\ doc \in OntoDocs
    /\ triples \in {{}, doc}
    /\ store = "None" /\ g = "None"
    /\ pc = "idle" /\ handle = "None" /\ initResult = "none"
    /\ resp = NoResp /\ submitted = {}
    /\ threads = [t \in Threads |-> [pc |-> "idle", handle |-> "None"]]

NextC ==
    \E t \in Threads :
       \/ get_graph_test(t) \/ get_graph_open(t) \/ get_graph_open_fails(t)
       \/ get_graph_lookup(t) \/ get_graph_parse(t) \/ get_graph_parse_fails(t)
       \/ get_graph_return(t)
       \/ serve(t) \/ refuse(t) \/ teardown(t)

SpecC == InitC /\ [][NextC]_vars

TypeOK ==
    /\ store \in {"None", "unopened", "open", "closed"}
    /\ g \in {"None", "graph"}
    /\ pc \in {"idle", "body", "teardown"}
    /\ handle \in {"None", "graph"}

-----------------------------------------------------------------------------
(* Properties of the discovery queries (specification SpecQ) *)

\* code point order on strings
StrKey(s) == <<NsRank(s[1]), LnRank(s[2])>>

\* c and every class reachable from c along at most n subclass-of edges
RECURSIVE AncestorsWithin(_, _, _)
AncestorsWithin(G, c, n) ==
    IF n = 0 THEN {c}
    ELSE LET prev == AncestorsWithin(G, c, n - 1)
         IN prev \cup {t[3] : t \in {x \in G : x[2] = RDFS_subClassOf /\ x[1] \in prev}}
SuperclassesOf(G, c) == AncestorsWithin(G, c, Cardinality(G))

DeclaredProperty(G, x) == \E k \in PropertyKinds : <<x, RDF_type, k>> \in G
DeclaredClass(G, x) == <<x, RDF_type, OWL_Class>> \in G

ApplicableProperties(G, c) ==
    {x \in {t[1] : t \in G} :
       /\ IsURIRef(x) /\ ~IsW3(str(x))
       /\ DeclaredProperty(G, x)
       /\ \/ \E d \in SuperclassesOf(G, c) : <<x, RDFS_domain, d>> \in G
          \/ ~\E t \in G : t[1] = x /\ t[2] = RDFS_domain}

PropertiesAnswered == pc = "teardown" /\ resp.op = "properties" /\ resp.status = "ok"
ClassesAnswered == pc = "teardown" /\ resp.op = "index" /\ resp.status = "ok"
InstancesAnswered == pc = "teardown" /\ resp.op = "instances" /\ resp.status = "ok"

UrisOf(rows) == {rows[i].uri : i \in 1..Len(rows)}

\* C4: listProperties(C) returns exactly the IRIs outside http://www.w3.org/
\* that are declared object, datatype or generic property and have a domain
\* in the reflexive-transitive superclass closure of C or no domain at all
C4_PropertiesExact ==
    PropertiesAnswered =>
        UrisOf(resp.rows) = {str(x) : x \in ApplicableProperties(triples, URIRef(resp.arg))}

\* a property with domain A answered for a transitive subclass R of A
C4_Witness ==
    /\ PropertiesAnswered /\ resp.arg = str(EX("R"))
    /\ {<<EX("R"), RDFS_subClassOf, EX("B")>>, <<EX("B"), RDFS_subClassOf, EX("A")>>,
        <<EX("P"), RDFS_domain, EX("A")>>} \subseteq triples
    /\ str(EX("P")) \in UrisOf(resp.rows)

\* a property with domain A answered for B when A and B are subclasses of each other
C4_WitnessCycle ==
    /\ PropertiesAnswered /\ resp.arg = str(EX("B"))
    /\ {<<EX("A"), RDFS_subClassOf, EX("B")>>, <<EX("B"), RDFS_subClassOf, EX("A")>>,
        <<EX("P"), RDFS_domain, EX("A")>>} \subseteq triples
    /\ str(EX("P")) \in UrisOf(resp.rows)

\* C5: listInstances never returns an IRI declared as a class or as an
\* object, datatype or generic property
C5_NoSchemaTermsAmongInstances ==
    InstancesAnswered =>
        \A i \in 1..Len(resp.rows) :
            /\ ~DeclaredClass(triples, URIRef(resp.rows[i].uri))
            /\ ~DeclaredProperty(triples, URIRef(resp.rows[i].uri))

\* C6: every entry of listProperties for a property declared
\* owl:ObjectProperty has valueKind = instance
C6_ObjectPropertyIsInstance ==
    PropertiesAnswered =>
        \A i \in 1..Len(resp.rows) :
            <<URIRef(resp.rows[i].uri), RDF_type, OWL_ObjectProperty>> \in triples
                => resp.rows[i].object_kind = "instance"

\* C7: every entry of listProperties whose range listClasses returns as a
\* class has valueKind = instance
C7_ClassRangeIsInstance ==
    PropertiesAnswered =>
        \A i \in 1..Len(resp.rows) :
            (/\ resp.rows[i].range # NoneStr
             /\ \E classes \in get_ontology_classes(triples) :
                    resp.rows[i].range \in UrisOf(classes))
                => resp.rows[i].object_kind = "instance"

\* C8: listClasses returns no two entries with the same IRI
C8_ClassesDistinct ==
    ClassesAnswered =>
        \A i, j \in 1..Len(resp.rows) :
            i # j => resp.rows[i].uri # resp.rows[j].uri

\* C9: listClasses is sorted ascending by the returned label, then by IRI
C9_ClassesSortedByLabel ==
    ClassesAnswered =>
        \A i, j \in 1..Len(resp.rows) :
            i < j => ~KeyLess(StrKey(resp.rows[j].label) \o StrKey(resp.rows[j].uri),
                              StrKey(resp.rows[i].label) \o StrKey(resp.rows[i].uri))

-----------------------------------------------------------------------------
(* Properties of the submission route and of store initialization           *)
(* (specification Spec)                                                     *)

\* a step in which add_triple answers
SubmissionStep == pc = "body" /\ pc' = "teardown" /\ resp'.op = "add"
AcceptedStep == SubmissionStep /\ resp'.status = "ok"

\* the relationship triple repeats the type triple or the label triple
RepeatsOwnTriple(f) ==
    \/ /\ f.property = str(RDF_type) /\ f.objectKind = "instance"
       /\ f.objectValueInstance = f.subjectClass
    \/ /\ f.property = str(RDFS_label) /\ f.objectKind = "literal"
       /\ f.objectValueLiteral = f.subjectName

FailsPrecondition(f) ==
    \/ f.subjectName = EmptyStr \/ f.subjectClass = EmptyStr
    \/ f.property = EmptyStr \/ f.objectKind = ""
    \/ f.objectKind = "literal" /\ f.objectValueLiteral = EmptyStr
    \/ f.objectKind = "instance" /\ f.objectValueInstance = EmptyStr
    \/ f.objectKind \notin {"literal", "instance"}

\* C2: a submission that fails a precondition is rejected and leaves the
\* triple set as it was
C2_RejectedWritesNothing ==
    [][(SubmissionStep /\ FailsPrecondition(resp'.arg)) =>
         (resp'.status = "rejected" /\ triples' = triples)]_vars

\* a literal submission without a literal value was rejected on a non-empty store
C2_Witness ==
    /\ pc = "teardown" /\ resp.op = "add" /\ resp.status = "rejected"
    /\ resp.arg.subjectName # EmptyStr /\ resp.arg.subjectClass # EmptyStr
    /\ resp.arg.property # EmptyStr
    /\ resp.arg.objectKind = "literal" /\ resp.arg.objectValueLiteral = EmptyStr
    /\ submitted # {}

\* the entry listInstances owes to a submission
EntryOf(e) == [uri |-> str(e.subject), label |-> e.form.subjectName]
AnsweredFor(e) ==
    /\ InstancesAnswered /\ resp.arg # EmptyStr
    /\ URIRef(resp.arg) \in SuperclassesOf(triples, URIRef(e.form.subjectClass))

\* the submission types its own subject as a class or a property
TypesSubjectAsSchema(f) ==
    \/ f.subjectClass \in {str(OWL_Class), str(RDF_Property)}
    \/ /\ f.property = str(RDF_type) /\ f.objectKind = "instance"
       /\ f.objectValueInstance \in {str(OWL_Class), str(RDF_Property)}

\* C3 as stated: after a successful submission with name N and class C every
\* later listInstances(A), A = C or a superclass of C, has the entry
\* (minted subject, N), whatever the property and the object
C3_Original ==
    \A e \in submitted :
        AnsweredFor(e) => \E i \in 1..Len(resp.rows) : resp.rows[i] = EntryOf(e)

\* C3 amended: the same, for submissions that do not type their own subject
\* as owl:Class or rdf:Property
C3_SubmittedIsListed ==
    \A e \in submitted :
        (AnsweredFor(e) /\ ~TypesSubjectAsSchema(e.form))
            => \E i \in 1..Len(resp.rows) : resp.rows[i] = EntryOf(e)

\* a subject submitted with class B is listed for B's superclass A
C3_Witness ==
    /\ InstancesAnswered /\ resp.arg = str(EX("A"))
    /\ \E e \in submitted :
         /\ AnsweredFor(e) /\ ~TypesSubjectAsSchema(e.form)
         /\ e.form.subjectClass = str(EX("B"))
         /\ \E i \in 1..Len(resp.rows) : resp.rows[i] = EntryOf(e)

\* a step in which a request calls get_graph()
GetGraphStep == pc = "idle" /\ pc' = "body"

\* C10 as stated: once the ontology load has failed, the following request
\* is served (its connection to the store succeeding) and not refused
C10_Original ==
    [][(GetGraphStep /\ initResult = "loadfail" /\ initResult' # "connfail")
          => handle' # "None"]_vars

\* C10 amended: a failed ontology load resets g to None and the request is
\* refused without a write; a following request is served only if its own
\* get_graph() finds the marker or parses the ontology
C10_LoadFailureRefuses ==
    [][/\ (GetGraphStep /\ initResult' = "loadfail") => (g' = "None" /\ handle' = "None")
       /\ (pc = "body" /\ handle = "None" /\ pc' = "teardown")
             => (resp'.status = "unavailable" /\ triples' = triples)
       /\ (GetGraphStep /\ g = "None" /\ handle' # "None")
             => initResult' \in {"marker", "parsed"}]_vars

\* a request was refused because the ontology load of its get_graph() failed
C10_Witness ==
    pc = "teardown" /\ resp.status = "unavailable" /\ initResult = "loadfail"

-----------------------------------------------------------------------------
(* The schema under submissions (specification SpecS) *)

\* the class IRIs listClasses returns, the property IRIs listProperties(c) returns
ClassIris(G) == UNION {UrisOf(r) : r \in get_ontology_classes(G)}
PropertyIris(G, c) == UNION {UrisOf(r) : r \in get_properties_for_class(G, c)}

SchemaUnchangedByStep ==
    /\ ClassIris(triples') = ClassIris(triples)
    /\ \A c \in (ClassArgs \ {EmptyStr}) \cup ClassIris(triples) \cup ClassIris(triples') :
         PropertyIris(triples', c) = PropertyIris(triples, c)

\* the submission states something with the schema vocabulary about its subject
WritesSchemaVocabulary(f) ==
    LET schemaTypes == {str(OWL_Class)} \cup {str(k) : k \in PropertyKinds}
    IN \/ f.subjectClass \in schemaTypes
       \/ f.property \in {str(RDFS_subClassOf), str(RDFS_domain)}
       \/ /\ f.property = str(RDF_type) /\ f.objectKind = "instance"
          /\ f.objectValueInstance \in schemaTypes

\* C11 as stated: no accepted submission, whatever its class, property and
\* object, changes the class IRIs of listClasses or the property IRIs of
\* listProperties(C) for any class C
C11_Original ==
    [][AcceptedStep => SchemaUnchangedByStep]_vars

\* C11 amended: the same for submissions that neither type their subject as
\* owl:Class or as a property kind nor use rdfs:subClassOf or rdfs:domain as
\* their property
C11_SchemaKeptByInstanceData ==
    [][(AcceptedStep /\ ~WritesSchemaVocabulary(resp'.arg)) => SchemaUnchangedByStep]_vars

\* an instance submission was accepted on a store whose schema lists class A
\* and gives property P to class B
C11_Witness ==
    /\ pc = "teardown" /\ resp.op = "add" /\ resp.status = "ok"
    /\ ~WritesSchemaVocabulary(resp.arg)
    /\ str(EX("A")) \in ClassIris(triples)
    /\ str(EX("P")) \in PropertyIris(triples, str(EX("B")))

-----------------------------------------------------------------------------
(* The store handle across requests (specification Spec) *)

\* C12: every query or mutation runs against an open store handle: while a
\* handler works on the handle get_graph() returned, the store is open, so
\* get_graph() never hands out a handle that an earlier teardown has closed
C12_OperationsOnOpenStore ==
    (pc = "body" /\ handle # "None") => store = "open"

-----------------------------------------------------------------------------
(* First use of the store by concurrent requests (specification SpecC) *)

\* thread t gets a graph from get_graph() in this step
ReceivesHandle(t) ==
    /\ threads[t].pc = "return" /\ threads'[t].pc = "body"
    /\ threads'[t].handle # "None"

\* another thread is inside the g.parse() call of a store without the marker
LoadInProgress(t) ==
    \E u \in Threads \ {t} : threads[u].pc = "parse" /\ Marker \notin triples

\* C13: when first-use get_graph() calls interleave, no caller receives a
\* non-None handle while another caller's ontology load is still in progress
C13_NoHandleDuringLoad ==
    [][\A t \in Threads : ReceivesHandle(t) => ~LoadInProgress(t)]_vars

====
